---- MODULE Spec2Model ----
(***************************************************************************)
(* A model of droll (src/src/main.rs): the dice-specification parser       *)
(* Dice::parse, the engine Dice::roll / Dice::roll_distribution, and the   *)
(* control flow of main.                                                   *)
(*                                                                         *)
(* Strings are sequences of one-character strings.  Integers keep the      *)
(* width of the Rust types: u8 for count and sides, i32 for the modifier   *)
(* and for every accumulator.                                              *)
(***************************************************************************)
EXTENDS Integers, Sequences, FiniteSets, TLC

(***************************************************************************)
(* Integer widths                                                          *)
(***************************************************************************)
U8Max == 255
I32Max == 2147483647
I32Min == (-I32Max) - 1

(* Bounds of the model *)
MaxSmall == 2        \* small counts / sides / modifier magnitudes go up to this
MaxLenNarrow == 7    \* longest raw input over the narrow alphabet
MaxLenWide == 4      \* longest raw input over the wide alphabet
MaxArgs == 2         \* most dice specs on one command line

(***************************************************************************)
(* Characters and strings                                                  *)
(***************************************************************************)
DigitChars == <<"0", "1", "2", "3", "4", "5", "6", "7", "8", "9">>

IsDigit(c) == \E i \in 1..10 : DigitChars[i] = c

DigitVal(c) == (CHOOSE i \in 1..10 : DigitChars[i] = c) - 1

IsWhitespace(c) == c = " "

ToLowerChar(c) == IF c = "D" THEN "d" ELSE IF c = "X" THEN "x" ELSE c

RECURSIVE TrimStart(_)
TrimStart(s) ==
  IF s # <<>> /\ IsWhitespace(Head(s)) THEN TrimStart(Tail(s)) ELSE s

RECURSIVE TrimEnd(_)
TrimEnd(s) ==
  IF s # <<>> /\ IsWhitespace(s[Len(s)])
    THEN TrimEnd(SubSeq(s, 1, Len(s) - 1))
    ELSE s

\* str::trim
trim(s) == TrimEnd(TrimStart(s))

\* str::to_lowercase
to_lowercase(s) == [i \in 1..Len(s) |-> ToLowerChar(s[i])]

\* str::contains(char)
contains(s, c) == \E i \in 1..Len(s) : s[i] = c

\* str::split(char): k occurrences of c give k + 1 segments, empty ones kept
RECURSIVE SplitFrom(_, _, _)
SplitFrom(s, c, cur) ==
  IF s = <<>> THEN <<cur>>
  ELSE IF Head(s) = c THEN <<cur>> \o SplitFrom(Tail(s), c, <<>>)
  ELSE SplitFrom(Tail(s), c, Append(cur, Head(s)))

split(s, c) == SplitFrom(s, c, <<>>)

\* Iterator::next on the split iterator: the k-th segment, if there is one
NextSegment(segs, k) ==
  IF k <= Len(segs) THEN [some |-> TRUE, v |-> segs[k]] ELSE [some |-> FALSE]

\* Option::unwrap_or
unwrap_or(opt, default) == IF opt.some THEN opt.v ELSE default

(***************************************************************************)
(* str::parse::<u8>() and str::parse::<i32>()                              *)
(***************************************************************************)
ParseErr == [ok |-> FALSE]

\* digits accumulated upwards with checked_mul / checked_add against max
RECURSIVE AccumulatePos(_, _, _)
AccumulatePos(s, acc, max) ==
  IF s = <<>> THEN [ok |-> TRUE, val |-> acc]
  ELSE IF ~IsDigit(Head(s)) THEN ParseErr
  ELSE LET d == DigitVal(Head(s)) IN
       IF acc > (max - d) \div 10 THEN ParseErr
       ELSE AccumulatePos(Tail(s), acc * 10 + d, max)

\* digits accumulated downwards with checked_mul / checked_sub against min
RECURSIVE AccumulateNeg(_, _, _)
AccumulateNeg(s, acc, min) ==
  IF s = <<>> THEN [ok |-> TRUE, val |-> acc]
  ELSE IF ~IsDigit(Head(s)) THEN ParseErr
  ELSE LET d == DigitVal(Head(s)) IN
       IF acc < ((min + d) + 9) \div 10 THEN ParseErr
       ELSE AccumulateNeg(Tail(s), acc * 10 - d, min)

\* an unsigned type takes an optional leading '+', never a '-'
parse_u8(s) ==
  IF s = <<>> THEN ParseErr
  ELSE IF Len(s) = 1 /\ s[1] \in {"+", "-"} THEN ParseErr
  ELSE IF s[1] = "+" THEN AccumulatePos(Tail(s), 0, U8Max)
  ELSE AccumulatePos(s, 0, U8Max)

\* a signed type takes an optional leading '+' or '-'
parse_i32(s) ==
  IF s = <<>> THEN ParseErr
  ELSE IF Len(s) = 1 /\ s[1] \in {"+", "-"} THEN ParseErr
  ELSE IF s[1] = "+" THEN AccumulatePos(Tail(s), 0, I32Max)
  ELSE IF s[1] = "-" THEN AccumulateNeg(Tail(s), 0, I32Min)
  ELSE AccumulatePos(s, 0, I32Max)

(***************************************************************************)
(* Dice::parse                                                             *)
(***************************************************************************)
Fail(kind, spec, bad) == [ok |-> FALSE, err |-> kind, spec |-> spec, bad |-> bad]

Dice(sides, count, modifier) ==
  [sides |-> sides, count |-> count, modifier |-> modifier]

Ok(dice) == [ok |-> TRUE, dice |-> dice]

\* a format check that only rejects a missing 'd'
FormatAtLeastTwoParts(parts) == Len(parts) >= 2

\* line 33: the format check on the segments around 'd'
FormatIsValid(parts) == Len(parts) = 2

\* line 49: the zero-count check
ZeroCountCheck(count) == count = 0

\* a zero-sides check that never fires
NoZeroSidesCheck(sides) == FALSE

\* line 104: the zero-sides check
ZeroSidesCheck(sides) == sides = 0

\* a '-' branch that forgets to negate
KeepModifierSign(modifier) == modifier

\* line 93: the '-' branch negates the parsed modifier
NegateModifier(modifier) == 0 - modifier

\* lines 54-102: sides and modifier from the second segment.  The result is
\* either a failure or [ok |-> TRUE, sides, modifier].
SidesAndModifier(spec, part) ==
  IF contains(part, "+") \/ contains(part, "-")
    THEN LET delim == IF contains(part, "+") THEN "+" ELSE "-"
             segs == split(part, delim)
             sides_str == NextSegment(segs, 1).v
             modifier_str == unwrap_or(NextSegment(segs, 2), <<"0">>)
             sides == parse_u8(sides_str)
             modifier == parse_i32(modifier_str)
         IN  IF ~sides.ok THEN Fail("InvalidSides", spec, sides_str)
             ELSE IF ~modifier.ok THEN Fail("InvalidModifier", spec, modifier_str)
             ELSE [ok |-> TRUE, sides |-> sides.val,
                   modifier |-> IF delim = "+" THEN modifier.val
                                ELSE NegateModifier(modifier.val)]
    ELSE LET sides == parse_u8(part) IN
         IF ~sides.ok THEN Fail("InvalidSides", spec, part)
         ELSE [ok |-> TRUE, sides |-> sides.val, modifier |-> 0]

Dice_parse(raw) ==
  LET spec == to_lowercase(trim(raw))
      parts == split(spec, "d")
  IN  IF ~FormatIsValid(parts) THEN Fail("MalformedSpec", spec, spec)
      ELSE LET count == parse_u8(parts[1]) IN
           IF ~count.ok THEN Fail("InvalidCount", spec, parts[1])
           ELSE IF ZeroCountCheck(count.val) THEN Fail("ZeroCount", spec, parts[1])
           ELSE LET sm == SidesAndModifier(spec, parts[2]) IN
                IF ~sm.ok THEN sm
                ELSE IF ZeroSidesCheck(sm.sides) THEN Fail("ZeroSides", spec, parts[2])
                ELSE Ok(Dice(sm.sides, count.val, sm.modifier))

(***************************************************************************)
(* State                                                                   *)
(***************************************************************************)
VARIABLES
  args,             \* Cli.dice: the dice specs of the command line
  show_histogram,   \* Cli.show_histogram
  overflow_checks,  \* the build: TRUE when integer overflow panics, FALSE when it wraps
  written,          \* how args[1] was spelled, when it was formatted from values
  pc,               \* position in the program
  result,           \* the last value returned by Dice::parse
  idx,              \* index of the spec (first loop) or die group (second loop) at hand
  dice_vec,         \* main's dice_vec
  total,            \* Dice::roll's accumulator
  drawn,            \* how many dice Dice::roll has drawn
  stdout,           \* what was printed, in order
  stderr,           \* the diagnostics written, in order
  exit_code,        \* the exit status, -1 while the process runs
  log               \* the operations performed, in order

vars == <<args, show_histogram, overflow_checks, written, pc, result, idx,
          dice_vec, total, drawn, stdout, stderr, exit_code, log>>

NoResult == [ok |-> FALSE, err |-> "none", spec |-> <<>>, bad |-> <<>>]

NotWritten == [how |-> "raw", count |-> 0, sides |-> 0, m |-> 0, m2 |-> 0]

(***************************************************************************)
(* Inputs                                                                  *)
(***************************************************************************)
\* decimal spelling of a natural number, as "{}" formats it
RECURSIVE ToDec(_)
ToDec(n) ==
  IF n < 10 THEN <<DigitChars[n + 1]>>
  ELSE Append(ToDec(n \div 10), DigitChars[(n % 10) + 1])

\* what follows "{count}d{sides}" in each spelling
Suffix(how, m, m2) ==
  CASE how = "plain"       -> <<>>
    [] how = "plus"        -> <<"+">> \o ToDec(m)
    [] how = "minus"       -> <<"-">> \o ToDec(m)
    [] how = "plus_only"   -> <<"+">>
    [] how = "minus_only"  -> <<"-">>
    [] how = "plus_plus"   -> <<"+">> \o ToDec(m) \o <<"+">> \o ToDec(m2)
    [] how = "minus_minus" -> <<"-">> \o ToDec(m) \o <<"-">> \o ToDec(m2)

Spell(w) == ToDec(w.count) \o <<"d">> \o ToDec(w.sides) \o Suffix(w.how, w.m, w.m2)

U8Range == 0..(U8Max + 1)

U8Samples == (0..MaxSmall) \cup {6, 9, 10, 99, 100, U8Max - 1, U8Max, U8Max + 1}

ModifierSamples == (0..MaxSmall) \cup {I32Max - 1, I32Max}

\* the three well-formed spellings over every count and sides of the u8 range and
\* one past it, and the spellings with an empty or a repeated modifier part
WrittenInputs ==
  [how : {"plain"}, count : U8Range, sides : U8Range, m : {0}, m2 : {0}]
  \cup
  [how : {"plus", "minus"}, count : U8Range, sides : U8Range,
   m : ModifierSamples, m2 : {0}]
  \cup
  [how : {"plus_only", "minus_only"}, count : U8Samples, sides : U8Samples,
   m : {0}, m2 : {0}]
  \cup
  [how : {"plus_plus", "minus_minus"}, count : U8Samples, sides : U8Samples,
   m : 0..MaxSmall, m2 : 0..MaxSmall]

NarrowAlphabet == {"1", "d", "+", "-"}

WideAlphabet == {"0", "2", "d", "D", "+", "-", " ", "x"}

StringsOver(alphabet, maxlen) == UNION {[1..k -> alphabet] : k \in 0..maxlen}

\* the inputs of the unit tests
TestInputs ==
  { <<"1", "d", "6">>, <<"3", "d", "8">>, <<"2", "d", "1", "0", "+", "5">>,
    <<"1", "d", "2", "0", "-", "3">>, <<" ", " ", "2", "D", "6", "+", "1", " ", " ">>,
    <<"i", "n", "v", "a", "l", "i", "d">>, <<"2", "x", "6">>, <<"d", "6">>,
    <<"2", "d">>, <<"a", "b", "c", " ", "d", "6">>, <<"2", "d", " ", "a", "b", "c">>,
    <<"2", "d", "6", "+", " ", "a", "b", "c">>, <<"0", "d", "6">>, <<"2", "d", "0">> }

\* specs with a sign in front of the count
SignedCountInputs ==
  { <<"+", "2", "d", "6">>, <<"-", "2", "d", "6">>, <<"+", "2", "d", "6", "+", "3">> }

RawInputs ==
  StringsOver(NarrowAlphabet, MaxLenNarrow) \cup StringsOver(WideAlphabet, MaxLenWide)
    \cup TestInputs \cup SignedCountInputs

(***************************************************************************)
(* Dice::parse on its own: one call on one input                           *)
(***************************************************************************)
InitCommon ==
  /\ result = NoResult
  /\ idx = 1
  /\ dice_vec = <<>>
  /\ total = 0
  /\ drawn = 0
  /\ stdout = <<>>
  /\ stderr = <<>>
  /\ exit_code = -1
  /\ log = <<>>

InitParse ==
  /\ \/ \E w \in WrittenInputs :
          /\ written = w
          /\ args = <<Spell(w)>>
     \/ \E s \in RawInputs :
          /\ written = NotWritten
          /\ args = <<s>>
  /\ show_histogram = FALSE
  /\ overflow_checks = TRUE   \* Dice::parse does no arithmetic that can overflow
  /\ pc = "call_parse"
  /\ InitCommon

CallParse ==
  /\ pc = "call_parse"
  /\ result' = Dice_parse(args[1])
  /\ pc' = "parse_returned"
  /\ UNCHANGED <<args, show_histogram, overflow_checks, written, idx, dice_vec,
                 total, drawn, stdout, stderr, exit_code, log>>

NextParse == CallParse

SpecParse == InitParse /\ [][NextParse]_vars

(***************************************************************************)
(* i32 arithmetic: an addition that leaves the i32 range panics in a build *)
(* with overflow checks and wraps around in a build without them.          *)
(***************************************************************************)
AddOverflows(a, b) ==
  \/ b > 0 /\ a > I32Max - b
  \/ b < 0 /\ a < I32Min - b

\* the two's-complement result of a + b, computed without leaving the i32 range
WrappingAdd(a, b) ==
  IF b > 0 /\ a > I32Max - b THEN ((a - I32Max) - 1) + (b + I32Min)
  ELSE IF b < 0 /\ a < I32Min - b THEN (a - I32Min) + ((b + I32Max) + 1)
  ELSE a + b

\* [panic |-> TRUE] or [panic |-> FALSE, val |-> the sum]
Add32(a, b, checks) ==
  IF AddOverflows(a, b) /\ checks THEN [panic |-> TRUE, val |-> 0]
  ELSE [panic |-> FALSE, val |-> WrappingAdd(a, b)]

(***************************************************************************)
(* Dice::roll_distribution                                                 *)
(***************************************************************************)
\* *rolls_map.entry(current_sum).or_insert(0) += 1
Increment(rolls_map, key) ==
  IF key \in DOMAIN rolls_map
    THEN [rolls_map EXCEPT ![key] = @ + 1]
    ELSE [k \in DOMAIN rolls_map \cup {key} |->
            IF k = key THEN 1 ELSE rolls_map[k]]

\* generate_combinations, and its loop from the face `roll` on.  The state that
\* is threaded through is [panic, map].
RECURSIVE generate_combinations(_, _, _, _, _)
RECURSIVE CombinationsLoop(_, _, _, _, _, _)
generate_combinations(count, sides, current_sum, st, checks) ==
  IF st.panic THEN st
  ELSE IF count = 0
    THEN [panic |-> FALSE, map |-> Increment(st.map, current_sum)]
    ELSE CombinationsLoop(count, sides, 1, current_sum, st, checks)

CombinationsLoop(count, sides, roll, current_sum, st, checks) ==
  IF st.panic \/ roll > sides THEN st
  ELSE LET next == Add32(current_sum, roll, checks) IN
       IF next.panic THEN [panic |-> TRUE, map |-> st.map]
       ELSE CombinationsLoop(count, sides, roll + 1, current_sum,
              generate_combinations(count - 1, sides, next.val, st, checks),
              checks)

\* the keys of the BTreeMap in iteration order: ascending
RECURSIVE Ascending(_)
Ascending(keys) ==
  IF keys = {} THEN <<>>
  ELSE LET least == CHOOSE k \in keys : \A other \in keys : k <= other
       IN  <<least>> \o Ascending(keys \ {least})

RECURSIVE SumValues(_, _)
SumValues(f, keys) ==
  IF keys = {} THEN 0
  ELSE LET k == CHOOSE x \in keys : TRUE
       IN  f[k] + SumValues(f, keys \ {k})

\* [panic |-> TRUE], or the pair (unique_totals, percentages).  A percentage is
\* kept as the exact ratio frequency / total_outcomes that the code multiplies by
\* 100.0; the rounding of f64 is not modelled.
roll_distribution(dice, checks) ==
  LET all_rolls == generate_combinations(dice.count, dice.sides, dice.modifier,
                     [panic |-> FALSE, map |-> <<>>], checks)
  IN  IF all_rolls.panic THEN [panic |-> TRUE]
      ELSE LET total_outcomes == SumValues(all_rolls.map, DOMAIN all_rolls.map)
               unique_totals == Ascending(DOMAIN all_rolls.map)
           IN  [panic |-> FALSE,
                unique_totals |-> unique_totals,
                percentages |->
                  [k \in 1..Len(unique_totals) |->
                     [freq |-> all_rolls.map[unique_totals[k]],
                      outcomes |-> total_outcomes]]]

(***************************************************************************)
(* main                                                                    *)
(***************************************************************************)
\* the dice specs a command line is made of
ArgPool ==
  { <<"2", "d", "6">>,
    <<"1", "d", "3", "-", "1">>,
    <<"2", "x", "6">>,
    <<"1", "d", "2", "+", "2", "1", "4", "7", "4", "8", "3", "6", "4", "6">>,
    <<"1", "d", "1", "+", "2", "1", "4", "7", "4", "8", "3", "6", "4", "7">>,
    <<"1", "d", "1", "+", "-", "2", "1", "4", "7", "4", "8", "3", "6", "4", "8">> }

\* clap: at least one dice spec is required
CommandLines == UNION {[1..n -> ArgPool] : n \in 1..MaxArgs}

Init ==
  /\ args \in CommandLines
  /\ show_histogram \in BOOLEAN
  /\ overflow_checks \in BOOLEAN
  /\ written = NotWritten
  /\ pc = "parse_loop"
  /\ InitCommon

\* a first loop that stops after the first spec
OnlyFirstSpecParsed == idx > 1

\* the first loop has run out of specs
AllSpecsParsed == idx > Len(args)

\* lines 159-161: the next spec parses and is pushed to dice_vec
ParseSpecOk ==
  /\ pc = "parse_loop"
  /\ ~AllSpecsParsed
  /\ Dice_parse(args[idx]).ok
  /\ result' = Dice_parse(args[idx])
  /\ dice_vec' = Append(dice_vec, result'.dice)
  /\ log' = Append(log, [op |-> "parse", i |-> idx])
  /\ idx' = idx + 1
  /\ UNCHANGED <<args, show_histogram, overflow_checks, written, pc, total,
                 drawn, stdout, stderr, exit_code>>

\* lines 162-165: the next spec does not parse; diagnostic, then exit(1)
ParseSpecErr ==
  /\ pc = "parse_loop"
  /\ ~AllSpecsParsed
  /\ ~Dice_parse(args[idx]).ok
  /\ result' = Dice_parse(args[idx])
  /\ stderr' = Append(stderr, [spec |-> args[idx], err |-> result'.err])
  /\ log' = Append(log, [op |-> "parse", i |-> idx])
  /\ exit_code' = 1
  /\ pc' = "exited"
  /\ UNCHANGED <<args, show_histogram, overflow_checks, written, idx, dice_vec,
                 total, drawn, stdout>>

\* line 168: every spec parsed; print the dice and enter the second loop
PrintDiceToRoll ==
  /\ pc = "parse_loop"
  /\ AllSpecsParsed
  /\ stdout' = Append(stdout, [kind |-> "dice", i |-> 0, v |-> dice_vec])
  /\ idx' = 1
  /\ pc' = "roll_loop"
  /\ UNCHANGED <<args, show_histogram, overflow_checks, written, result,
                 dice_vec, total, drawn, stderr, exit_code, log>>

\* lines 169-170, 116: the next dice are taken; Dice::roll starts with total = 0
RollBegin ==
  /\ pc = "roll_loop"
  /\ idx <= Len(dice_vec)
  /\ total' = 0
  /\ drawn' = 0
  /\ log' = Append(log, [op |-> "roll", i |-> idx])
  /\ pc' = "rolling"
  /\ UNCHANGED <<args, show_histogram, overflow_checks, written, result, idx,
                 dice_vec, stdout, stderr, exit_code>>

\* lines 117-120: one die is drawn from 1..=sides and added to the total
RollDie ==
  /\ pc = "rolling"
  /\ drawn < dice_vec[idx].count
  /\ \E roll \in 1..dice_vec[idx].sides :
       LET sum == Add32(total, roll, overflow_checks) IN
       /\ total' = sum.val
       /\ pc' = IF sum.panic THEN "panicked" ELSE "rolling"
       /\ exit_code' = IF sum.panic THEN 101 ELSE exit_code
  /\ drawn' = drawn + 1
  /\ UNCHANGED <<args, show_histogram, overflow_checks, written, result, idx,
                 dice_vec, stdout, stderr, log>>

\* line 121: the modifier is added to the total
RollAddModifier ==
  /\ pc = "rolling"
  /\ drawn = dice_vec[idx].count
  /\ LET sum == Add32(total, dice_vec[idx].modifier, overflow_checks) IN
       /\ total' = sum.val
       /\ pc' = IF sum.panic THEN "panicked" ELSE "rolled"
       /\ exit_code' = IF sum.panic THEN 101 ELSE exit_code
  /\ UNCHANGED <<args, show_histogram, overflow_checks, written, result, idx,
                 dice_vec, drawn, stdout, stderr, log>>

\* the index of the dice handled after the dice at i
NextDice(i) == i + 1

\* lines 171-173: the total is printed; without the histogram flag the loop goes on
PrintTotal ==
  /\ pc = "rolled"
  /\ stdout' = Append(stdout, [kind |-> "total", i |-> idx, v |-> total])
  /\ log' = Append(log, [op |-> "print", i |-> idx])
  /\ IF show_histogram
       THEN pc' = "histogram" /\ idx' = idx
       ELSE pc' = "roll_loop" /\ idx' = NextDice(idx)
  /\ UNCHANGED <<args, show_histogram, overflow_checks, written, result,
                 dice_vec, total, drawn, stderr, exit_code>>

\* lines 174-182: the distribution is computed and printed
PrintHistogram ==
  /\ pc = "histogram"
  /\ LET dist == roll_distribution(dice_vec[idx], overflow_checks) IN
       IF dist.panic
         THEN /\ pc' = "panicked"
              /\ exit_code' = 101
              /\ UNCHANGED <<stdout, log, idx>>
         ELSE /\ stdout' = Append(stdout, [kind |-> "histogram", i |-> idx, v |-> dist])
              /\ log' = Append(log, [op |-> "histogram", i |-> idx])
              /\ idx' = NextDice(idx)
              /\ pc' = "roll_loop"
              /\ UNCHANGED exit_code
  /\ UNCHANGED <<args, show_histogram, overflow_checks, written, result,
                 dice_vec, total, drawn, stderr>>

\* line 186: the second loop has run out of dice; main returns
Finish ==
  /\ pc = "roll_loop"
  /\ idx > Len(dice_vec)
  /\ exit_code' = 0
  /\ pc' = "done"
  /\ UNCHANGED <<args, show_histogram, overflow_checks, written, result, idx,
                 dice_vec, total, drawn, stdout, stderr, log>>

Next ==
  \/ ParseSpecOk
  \/ ParseSpecErr
  \/ PrintDiceToRoll
  \/ RollBegin
  \/ RollDie
  \/ RollAddModifier
  \/ PrintTotal
  \/ PrintHistogram
  \/ Finish

Spec == Init /\ [][Next]_vars

(***************************************************************************)
(* Properties of Dice::parse (checked under SpecParse)                     *)
(***************************************************************************)
Returned == pc = "parse_returned"

ValidU8(n) == n \in 1..U8Max

\* the trimmed, lower-cased input and the number of 'd' characters in it
Normalised == to_lowercase(trim(args[1]))

CountOfD == Cardinality({i \in 1..Len(Normalised) : Normalised[i] = "d"})

\* the text before / after the only 'd'
PosOfD == CHOOSE i \in 1..Len(Normalised) : Normalised[i] = "d"

CountSegment == SubSeq(Normalised, 1, PosOfD - 1)

SidesSegment == SubSeq(Normalised, PosOfD + 1, Len(Normalised))

\* C1: the three well-formed spellings "{count}d{sides}", "{count}d{sides}+{m}" and
\* "{count}d{sides}-{m}", with count and sides in 1..255 and 0 <= m <= i32::MAX,
\* parse to exactly (count, sides, 0), (count, sides, m) and (count, sides, -m).
C1_WellFormedSpellingsParse ==
  (Returned /\ written.how \in {"plain", "plus", "minus"}
     /\ ValidU8(written.count) /\ ValidU8(written.sides))
  => result = Ok(Dice(written.sides, written.count,
                      CASE written.how = "plain" -> 0
                        [] written.how = "plus"  -> written.m
                        [] written.how = "minus" -> 0 - written.m))

C1_Witness ==
  /\ Returned
  /\ written.how = "minus"
  /\ written.count = U8Max
  /\ written.sides = U8Max
  /\ written.m = I32Max
  /\ result.ok
  /\ result.dice.modifier = I32Min + 1

\* C2: every Dice that Dice::parse returns has count >= 1 and sides >= 1; an input
\* spelled with count 0 or sides 0, with or without a modifier part, is rejected.
C2_ParsedDiceArePositive ==
  Returned =>
    /\ result.ok => (result.dice.count >= 1 /\ result.dice.sides >= 1)
    /\ (written.how # "raw" /\ (written.count = 0 \/ written.sides = 0)) => ~result.ok

C2_Witness ==
  /\ Returned
  /\ written.how = "plus"
  /\ written.count = 1
  /\ written.sides = 0
  /\ ~result.ok
  /\ result.err = "ZeroSides"

C8_MissingModifierDefaultsToZero ==
  (Returned /\ written.how \in {"plus_only", "minus_only"}
     /\ ValidU8(written.count) /\ ValidU8(written.sides))
  => result = Ok(Dice(written.sides, written.count, 0))

\* C9: with a repeated delimiter ("{count}d{sides}+{m}+{m2}", likewise with '-')
\* the modifier string that is parsed is the whole remainder "{m}+{m2}" after the
\* first delimiter, so the input is rejected for that modifier string and is never
\* accepted with the modifier m alone.
C9_RemainderIsTheModifierString ==
  (Returned /\ written.how \in {"plus_plus", "minus_minus"}
     /\ ValidU8(written.count) /\ ValidU8(written.sides))
  => /\ ~result.ok
     /\ result.err = "InvalidModifier"
     /\ result.bad = Tail(Suffix(written.how, written.m, written.m2))

\* C10: a '+' or '-' in the count segment makes Dice::parse return the
\* invalid-count error.
C10_SignInCountIsInvalidCount ==
  (Returned /\ CountOfD = 1
     /\ (contains(CountSegment, "+") \/ contains(CountSegment, "-")))
  => (~result.ok /\ result.err = "InvalidCount")

(***************************************************************************)
(* Properties of roll, roll_distribution and main (checked under Spec)     *)
(***************************************************************************)
\* t is the sum a + b of the integers a and b
IsSum(t, a, b) == ~AddOverflows(a, b) /\ t = a + b

LastOp == IF log = <<>> THEN "none" ELSE log[Len(log)].op

Before(p, op, i) == \E q \in 1..(p - 1) : log[q] = [op |-> op, i |-> i]

Terminated == pc \in {"exited", "done", "panicked"}

\* C3: Dice::roll never overflows its accumulator, and the value it returns lies
\* in [count + modifier, count * sides + modifier].
C3_RollWithinBounds ==
  /\ ~(pc = "panicked" /\ LastOp = "roll")
  /\ pc = "rolled" =>
       \E sum \in dice_vec[idx].count..(dice_vec[idx].count * dice_vec[idx].sides) :
         IsSum(total, dice_vec[idx].modifier, sum)

RECURSIVE SumOfTuple(_, _)
SumOfTuple(tuple, n) == IF n = 0 THEN 0 ELSE tuple[n] + SumOfTuple(tuple, n - 1)

RECURSIVE Power(_, _)
Power(base, n) == IF n = 0 THEN 1 ELSE base * Power(base, n - 1)

TuplesWithSum(dice, sum) ==
  Cardinality({t \in [1..dice.count -> 1..dice.sides] : SumOfTuple(t, dice.count) = sum})

\* what the claim says of the distribution dist returned for dice
ExactDistribution(dice, dist) ==
  LET totals == dist.unique_totals
      n == Len(totals)
  IN  /\ \A k \in 1..(n - 1) : totals[k] < totals[k + 1]
      /\ n = (dice.count * dice.sides - dice.count) + 1
      /\ \A k \in 1..n :
           /\ IsSum(totals[k], dice.modifier, dice.count + (k - 1))
           /\ dist.percentages[k].freq = TuplesWithSum(dice, dice.count + (k - 1))
           /\ dist.percentages[k].outcomes = Power(dice.sides, dice.count)
      /\ dice = Dice(6, 2, 0) =>
           /\ totals[1] = 2 /\ dist.percentages[1].freq = 1
           /\ totals[6] = 7 /\ dist.percentages[6].freq = 6
           /\ totals[11] = 12 /\ dist.percentages[11].freq = 1
           /\ \A k \in 1..n : k # 6 => dist.percentages[k].freq < 6
           /\ \A k \in 1..n : dist.percentages[k].freq >= 1

\* C4: for every valid spec roll_distribution returns the totals count + modifier
\* .. count * sides + modifier in ascending order, each with the number of
\* count-tuples over 1..sides that sum to it, out of sides^count.
C4_DistributionIsExact ==
  /\ ~(pc = "panicked" /\ LastOp = "print")
  /\ \A k \in 1..Len(stdout) :
       stdout[k].kind = "histogram" =>
         ExactDistribution(dice_vec[stdout[k].i], stdout[k].v)

Failing == {i \in 1..Len(args) : ~Dice_parse(args[i]).ok}

FirstFailing == CHOOSE i \in Failing : \A j \in Failing : i <= j

TotalsPrinted == SelectSeq(stdout, LAMBDA line : line.kind = "total")

\* C5: with a spec that fails to parse, the program ends with exit code 1 and a
\* diagnostic naming the first failing spec, and nothing is ever rolled for a spec
\* after it; with none, the program ends with exit code 0 after printing one
\* total per spec, in argument order.
C5_ExitProtocol ==
  IF Failing # {}
    THEN /\ \A k \in 1..Len(stdout) :
              stdout[k].kind \in {"total", "histogram"} => stdout[k].i < FirstFailing
         /\ Terminated =>
              /\ exit_code = 1
              /\ Len(stderr) = 1
              /\ stderr[1].spec = args[FirstFailing]
    ELSE Terminated =>
           /\ exit_code = 0
           /\ Len(TotalsPrinted) = Len(args)
           /\ \A k \in 1..Len(args) : TotalsPrinted[k].i = k

\* C6 as claimed: when spec j is parsed, every spec i < j has been rolled and
\* printed.
C6_EachSpecDoneBeforeNextIsParsed ==
  \A p \in 1..Len(log) :
    log[p].op = "parse" =>
      \A i \in 1..(log[p].i - 1) : Before(p, "roll", i) /\ Before(p, "print", i)

\* C6 as amended: the specs are parsed in the order given, and all of them before
\* anything is rolled; then each spec is rolled, printed and, with the histogram
\* flag, its distribution printed, before the next spec is rolled.
C6_ParseAllThenRollInOrder ==
  \A p \in 1..Len(log) :
    /\ log[p].op = "parse" =>
         \A i \in 1..(log[p].i - 1) : Before(p, "parse", i)
    /\ log[p].op = "roll" =>
         /\ \A j \in 1..Len(args) : Before(p, "parse", j)
         /\ \A i \in 1..(log[p].i - 1) :
              /\ Before(p, "roll", i)
              /\ Before(p, "print", i)
              /\ show_histogram => Before(p, "histogram", i)
    /\ log[p].op = "print" => Before(p, "roll", log[p].i)
    /\ log[p].op = "histogram" => Before(p, "print", log[p].i)

C6_Witness ==
  /\ Len(args) >= 2
  /\ show_histogram
  /\ \E p \in 1..Len(log) :
       /\ log[p] = [op |-> "roll", i |-> 2]
       /\ Before(p, "histogram", 1)
       /\ Before(p, "parse", 2)

====
